---- MODULE Spec2Model ----
(***************************************************************************)
(* A model of main.py: the label-matching pipeline that fills a            *)
(* spreadsheet template from aggregated source tables.                     *)
(*                                                                         *)
(* Text is modelled as a sequence of one-character strings, so that        *)
(* lower(), strip() and the substring test `in` are computed character by  *)
(* character, as Python computes them.                                     *)
(***************************************************************************)
EXTENDS Integers, Sequences, FiniteSets, TLC

VARIABLES
    arg, ret,                                   \* a pure function's arguments and result
    retries, backoff_factor,                    \* call_groq: its parameters
    i, response, requests, waits, outcome,      \* call_groq: loop index, last response, requests sent, sleeps, result
    source_paths, path_idx, combined,           \* build_aggregated_costs: inputs, loop position, dict
    template,                                   \* populate_template_excel: the workbook at template_path
    pc, cost_lookup, ws, cursor, mappings,      \* populate_template_excel
    success, total, suspicious_count, saved, accuracy, data_correctness,
    placeholder, matched_key, fallback_key,     \* populate_template_excel: locals of the loop body
    caught                                      \* the exception the loop body caught, if any

fnVars == <<arg, ret>>
groqVars == <<retries, backoff_factor, i, response, requests, waits, outcome>>
aggVars == <<source_paths, path_idx, combined>>
orchVars == <<template, pc, cost_lookup, ws, cursor, mappings, success, total,
              suspicious_count, saved, accuracy, data_correctness,
              placeholder, matched_key, fallback_key, caught>>
vars == <<arg, ret, retries, backoff_factor, i, response, requests, waits, outcome, source_paths, path_idx, combined,
          template, pc, cost_lookup, ws, cursor, mappings, success, total,
          suspicious_count, saved, accuracy, data_correctness,
          placeholder, matched_key, fallback_key, caught>>

(***************************************************************************)
(* Text                                                                    *)
(***************************************************************************)
UpperChars == <<"A", "B", "C", "D", "E", "F", "G", "H", "I", "J", "K", "L", "M", "N", "O", "P", "Q", "R", "S", "T", "U", "V", "W", "X", "Y", "Z">>
LowerChars == <<"a", "b", "c", "d", "e", "f", "g", "h", "i", "j", "k", "l", "m", "n", "o", "p", "q", "r", "s", "t", "u", "v", "w", "x", "y", "z">>

\* The marker glyph that opens a placeholder, one character.
Marker == "U+25E6"

\* str.lower() on one character.
LowerChar(c) ==
    IF \E n \in 1..Len(UpperChars) : UpperChars[n] = c
    THEN LowerChars[CHOOSE n \in 1..Len(UpperChars) : UpperChars[n] = c]
    ELSE c

\* str.lower()
Lower(s) == [n \in 1..Len(s) |-> LowerChar(s[n])]

\* Python's `sub in s` on strings.
Contains(sub, s) ==
    \E k \in 0..(Len(s) - Len(sub)) : \A n \in 1..Len(sub) : s[k + n] = sub[n]

RECURSIVE Join(_)
\* The concatenation of a sequence of texts.
Join(parts) == IF parts = <<>> THEN <<>> ELSE Head(parts) \o Join(Tail(parts))

\* Every text made of at most n fragments of F.
Texts(F, n) == {Join(fs) : fs \in UNION {[1..m -> F] : m \in 0..n}}

W_nurse == <<"n", "u", "r", "s", "e">>
W_care_worker == <<"c", "a", "r", "e", " ", "w", "o", "r", "k", "e", "r">>
W_care_minutes == <<"c", "a", "r", "e", " ", "m", "i", "n", "u", "t", "e", "s">>
W_personal_care == <<"p", "e", "r", "s", "o", "n", "a", "l", " ", "c", "a", "r", "e">>
W_staff == <<"s", "t", "a", "f", "f">>
W_management == <<"m", "a", "n", "a", "g", "e", "m", "e", "n", "t">>
W_allied_health == <<"a", "l", "l", "i", "e", "d", " ", "h", "e", "a", "l", "t", "h">>
W_bedday == <<"b", "e", "d", "d", "a", "y">>
W_occupiedbeddays == <<"o", "c", "c", "u", "p", "i", "e", "d", "b", "e", "d", "d", "a", "y", "s">>
W_availablebeddays == <<"a", "v", "a", "i", "l", "a", "b", "l", "e", "b", "e", "d", "d", "a", "y", "s">>
W_bed_day == <<"b", "e", "d", " ", "d", "a", "y">>
W_rate == <<"r", "a", "t", "e">>

(***************************************************************************)
(* is_semantic_match                                                       *)
(***************************************************************************)
RoleWords == {W_nurse, W_care_worker, W_care_minutes, W_personal_care, W_staff,
              W_management, W_allied_health}
BedDayWords == {W_bedday, W_occupiedbeddays, W_availablebeddays}

is_semantic_match_keycase(label, candidate) ==
    LET placeholder_lower == Lower(label)
        matched_key_lower == candidate
    IN  IF (\E word \in RoleWords : Contains(word, placeholder_lower))
           /\ (\E bad_word \in BedDayWords : Contains(bad_word, matched_key_lower))
        THEN FALSE
        ELSE IF Contains(W_bed_day, placeholder_lower)
                /\ ~(\E good_word \in BedDayWords : Contains(good_word, matched_key_lower))
        THEN FALSE
        ELSE IF Contains(W_rate, placeholder_lower) /\ ~Contains(W_rate, matched_key_lower)
        THEN FALSE
        ELSE TRUE

is_semantic_match_firsthit(label, candidate) ==
    LET placeholder_lower == Lower(label)
        matched_key_lower == Lower(candidate)
    IN  IF \E word \in RoleWords : Contains(word, placeholder_lower)
        THEN ~(\E bad_word \in BedDayWords : Contains(bad_word, matched_key_lower))
        ELSE IF Contains(W_bed_day, placeholder_lower)
        THEN \E good_word \in BedDayWords : Contains(good_word, matched_key_lower)
        ELSE IF Contains(W_rate, placeholder_lower)
        THEN Contains(W_rate, matched_key_lower)
        ELSE TRUE

is_semantic_match(label, candidate) ==
    LET placeholder_lower == Lower(label)
        matched_key_lower == Lower(candidate)
    IN  IF (\E word \in RoleWords : Contains(word, placeholder_lower))
           /\ (\E bad_word \in BedDayWords : Contains(bad_word, matched_key_lower))
        THEN FALSE
        ELSE IF Contains(W_bed_day, placeholder_lower)
                /\ ~(\E good_word \in BedDayWords : Contains(good_word, matched_key_lower))
        THEN FALSE
        ELSE IF Contains(W_rate, placeholder_lower) /\ ~Contains(W_rate, matched_key_lower)
        THEN FALSE
        ELSE TRUE

(***************************************************************************)
(* fallback_match, with difflib.get_close_matches(word, keys, n=1, 0.4)    *)
(***************************************************************************)
\* The characters of the model in code-point order (Python compares strings
\* by code point).
CharOrder == <<" ", "A", "B", "C", "D", "E", "F", "G", "H", "I", "J", "K", "L", "M", "N", "O", "P", "Q", "R", "S", "T", "U", "V", "W", "X", "Y", "Z", "_", "a", "b", "c", "d", "e", "f", "g", "h", "i", "j", "k", "l", "m", "n", "o", "p", "q", "r", "s", "t", "u", "v", "w", "x", "y", "z", "U+25E6">>

Ord(c) == CHOOSE n \in 1..Len(CharOrder) : CharOrder[n] = c

\* Python's s < t on strings.
StrLess(s, t) ==
    \/ /\ Len(s) < Len(t)
       /\ \A n \in 1..Len(s) : s[n] = t[n]
    \/ \E k \in 1..Len(s) :
          /\ k <= Len(t)
          /\ \A n \in 1..(k - 1) : s[n] = t[n]
          /\ Ord(s[k]) < Ord(t[k])

\* str.strip(chars): drop the leading and trailing characters that are in chars.
Strip(s, chars) ==
    LET keep == {n \in 1..Len(s) : s[n] \notin chars}
    IN  IF keep = {} THEN <<>>
        ELSE LET lo == CHOOSE n \in keep : \A m \in keep : n <= m
                 hi == CHOOSE n \in keep : \A m \in keep : n >= m
             IN  [n \in 1..(hi - lo + 1) |-> s[lo + n - 1]]

\* The one element of a one-element set. Only({F(v) : v \in {e}}) computes e
\* once and hands its value to F.
Only(S) == CHOOSE x \in S : TRUE

RECURSIVE CommonLen(_, _, _, _, _, _)
\* The length of the common run of a[x:ahi] and b[y:bhi] (0-based, half-open).
CommonLen(a, x, ahi, b, y, bhi) ==
    IF x < ahi /\ y < bhi /\ a[x + 1] = b[y + 1]
    THEN 1 + CommonLen(a, x + 1, ahi, b, y + 1, bhi)
    ELSE 0

\* Block t = <<size, i, j>> is the one find_longest_match keeps rather than u:
\* the longer one; of two as long, the one that starts earlier in a; of two
\* that start together in a, the one that starts earlier in b.
BlockFirst(t, u) ==
    \/ t[1] > u[1]
    \/ t[1] = u[1] /\ t[2] < u[2]
    \/ t[1] = u[1] /\ t[2] = u[2] /\ t[3] <= u[3]

\* SequenceMatcher.find_longest_match(alo, ahi, blo, bhi) without junk, as
\* <<i, j, size>>: the longest common block of a[alo:ahi] and b[blo:bhi]; of the
\* longest, the one that starts earliest in a, and of those the one that starts
\* earliest in b; <<alo, blo, 0>> when no element matches.
find_longest_match(a, alo, ahi, b, blo, bhi) ==
    Only({IF blocks = {} THEN <<alo, blo, 0>>
          ELSE Only({<<t[2], t[3], t[1]>> :
                     t \in {t \in blocks : \A u \in blocks : BlockFirst(t, u)}}) :
          blocks \in {{<<CommonLen(a, p[1], ahi, b, p[2], bhi), p[1], p[2]>> :
                       p \in {p \in (alo..(ahi - 1)) \X (blo..(bhi - 1)) :
                                 a[p[1] + 1] = b[p[2] + 1]}}}})

RECURSIVE MatchingSize(_, _, _, _, _, _)
\* The total size of SequenceMatcher.get_matching_blocks() over a window: the
\* longest block, then the same to its left and to its right.
MatchingSize(a, alo, ahi, b, blo, bhi) ==
    Only({IF m[3] = 0 THEN 0
          ELSE m[3]
               + (IF alo < m[1] /\ blo < m[2]
                  THEN MatchingSize(a, alo, m[1], b, blo, m[2]) ELSE 0)
               + (IF m[1] + m[3] < ahi /\ m[2] + m[3] < bhi
                  THEN MatchingSize(a, m[1] + m[3], ahi, b, m[2] + m[3], bhi) ELSE 0) :
          m \in {find_longest_match(a, alo, ahi, b, blo, bhi)}})

\* difflib._calculate_ratio as a fraction <<numerator, denominator>>.
calculate_ratio(matches, length) ==
    IF length > 0 THEN <<2 * matches, length>> ELSE <<1, 1>>

\* SequenceMatcher.ratio()
ratio(a, b) == calculate_ratio(MatchingSize(a, 0, Len(a), b, 0, Len(b)), Len(a) + Len(b))

RECURSIVE SumOver(_, _)
\* The sum of f over the set S.
SumOver(f, S) ==
    IF S = {} THEN 0
    ELSE Only({f[c] + SumOver(f, S \ {c}) : c \in {CHOOSE c \in S : TRUE}})

\* SequenceMatcher.quick_ratio(): the elements of a that b still has a copy of.
quick_ratio(a, b) ==
    LET count(s, c) == Cardinality({n \in 1..Len(s) : s[n] = c})
        min(u, v) == IF u < v THEN u ELSE v
    IN  calculate_ratio(
            Only({SumOver(avail, DOMAIN avail) :
                  avail \in {[c \in {a[n] : n \in 1..Len(a)} |->
                                 min(count(a, c), count(b, c))]}}),
            Len(a) + Len(b))

\* SequenceMatcher.real_quick_ratio()
real_quick_ratio(a, b) ==
    calculate_ratio(IF Len(a) < Len(b) THEN Len(a) ELSE Len(b), Len(a) + Len(b))

\* The cutoff 0.4 of the call, as a fraction.
CutoffNum == 4
CutoffDen == 10

\* r >= cutoff, on fractions.
AtLeastCutoff(r) == r[1] * CutoffDen >= CutoffNum * r[2]

\* Python's tuple order on (ratio, x): the ratio first, then the string.
ScoredLess(r, s, t, u) ==
    \/ r[1] * t[2] < t[1] * r[2]
    \/ r[1] * t[2] = t[1] * r[2] /\ StrLess(s, u)

\* The candidates x that pass the three cutoff tests, as the pairs
\* <<ratio, x>> that get_close_matches collects.
CloseEnough(word, possibilities) ==
    {<<ratio(possibilities[n], word), possibilities[n]>> :
       n \in {n \in 1..Len(possibilities) :
                 /\ AtLeastCutoff(real_quick_ratio(possibilities[n], word))
                 /\ AtLeastCutoff(quick_ratio(possibilities[n], word))
                 /\ AtLeastCutoff(ratio(possibilities[n], word))}}

\* difflib.get_close_matches(word, possibilities, n=1, cutoff=0.4): the list of
\* at most one best match, the largest (ratio, x); a candidate x is matched as
\* seq1 against word as seq2.
get_close_matches(word, possibilities) ==
    Only({IF result = {} THEN <<>>
          ELSE Only({<<r[2]>> :
                     r \in {r \in result :
                               \A q \in result : ~ScoredLess(r[1], r[2], q[1], q[2])}}) :
          result \in {CloseEnough(word, possibilities)}})

\* list.index(x): the first position holding x.
Index(list, x) == CHOOSE n \in 1..Len(list) :
                      /\ list[n] = x
                      /\ \A m \in 1..(n - 1) : list[m] # x

\* What a function call gives: a value, or an exception.
Returned(v) == [raised |-> FALSE, value |-> <<v>>]
RaisedWith(e) == [raised |-> TRUE, value |-> <<e>>]
\* Python's None.
None == [none |-> TRUE]

\* A key of the lookup: a column name (text) or, from a grouped numeric
\* category column, a number.
StrKey(s) == [isnum |-> FALSE, text |-> s, num |-> 0]
NumKey(n) == [isnum |-> TRUE, text |-> <<>>, num |-> n]

\* The body of fallback_match once placeholder_clean and keys_lower are computed.
FallbackPick(keys, placeholder_clean, keys_lower) ==
    Only({IF matches # <<>>
          THEN Returned(keys[Index(keys_lower, matches[1])])
          ELSE Returned(None) :
          matches \in {get_close_matches(placeholder_clean, keys_lower)}})

FallbackPickLowered(keys, placeholder_clean, keys_lower) ==
    Only({IF matches # <<>>
          THEN Returned(StrKey(keys_lower[Index(keys_lower, matches[1])]))
          ELSE Returned(None) :
          matches \in {get_close_matches(placeholder_clean, keys_lower)}})

fallback_match_lowered(label, keys) ==
    IF \E n \in 1..Len(keys) : keys[n].isnum THEN RaisedWith("AttributeError")
    ELSE Only({FallbackPickLowered(keys, c[1], c[2]) :
               c \in {<<Lower(Strip(label, {Marker, " "})),
                        [n \in 1..Len(keys) |-> Lower(keys[n].text)]>>}})

\* fallback_match(label, keys). k.lower() on a key that is a number
\* raises AttributeError.
fallback_match(label, keys) ==
    IF \E n \in 1..Len(keys) : keys[n].isnum THEN RaisedWith("AttributeError")
    ELSE Only({FallbackPick(keys, c[1], c[2]) :
               c \in {<<Lower(Strip(label, {Marker, " "})),
                        [n \in 1..Len(keys) |-> Lower(keys[n].text)]>>}})

(***************************************************************************)
(* Texts of the model                                                      *)
(***************************************************************************)
K_NurseCost == <<"N", "u", "r", "s", "e", "C", "o", "s", "t">>
K_nursecost == <<"n", "u", "r", "s", "e", "c", "o", "s", "t">>
K_OccupiedBedDays == <<"O", "c", "c", "u", "p", "i", "e", "d", "B", "e", "d", "D", "a", "y", "s">>
K_BedDayRate == <<"B", "e", "d", "D", "a", "y", "R", "a", "t", "e">>
K_HourlyRate == <<"H", "o", "u", "r", "l", "y", "R", "a", "t", "e">>
K_Role == <<"R", "o", "l", "e">>
K_Cost_AUD == <<"C", "o", "s", "t", "_", "A", "U", "D">>
K_Field == <<"F", "i", "e", "l", "d">>
K_Value == <<"V", "a", "l", "u", "e">>
K_Hours == <<"H", "o", "u", "r", "s">>
P_Nurse == <<"U+25E6", " ", "N", "u", "r", "s", "e", " ", "s", "t", "a", "f", "f", "i", "n", "g", " ", "c", "o", "s", "t">>
P_BedDayRate == <<"U+25E6", " ", "B", "e", "d", " ", "d", "a", "y", " ", "r", "a", "t", "e">>
P_Corporate == <<"U+25E6", " ", "C", "o", "r", "p", "o", "r", "a", "t", "e", " ", "o", "v", "e", "r", "h", "e", "a", "d", "s">>
P_Bare == <<"U+25E6">>
R_OccupiedBedDays == <<"O", "c", "c", "u", "p", "i", "e", "d", "B", "e", "d", "D", "a", "y", "s">>
R_NurseCost_padded == <<" ", "N", "u", "r", "s", "e", "C", "o", "s", "t", " ">>
R_Unknown == <<"A", "g", "e", "n", "c", "y", " ", "t", "o", "t", "a", "l">>

(***************************************************************************)
(* The variables a specification does not use stay at these values.        *)
(***************************************************************************)
FnIdle == arg = <<>> /\ ret = <<>>
GroqIdle ==
    /\ retries = 0 /\ backoff_factor = 0 /\ i = 0 /\ response = <<>>
    /\ requests = 0 /\ waits = <<>> /\ outcome = <<>>
AggIdle == source_paths = <<>> /\ path_idx = 0 /\ combined = <<>>
OrchIdle ==
    /\ template = <<>>
    /\ pc = "idle" /\ cost_lookup = <<>> /\ ws = <<>> /\ cursor = 0 /\ mappings = <<>>
    /\ success = 0 /\ total = 0 /\ suspicious_count = 0 /\ saved = <<>>
    /\ accuracy = <<>> /\ data_correctness = <<>>
    /\ placeholder = <<>> /\ matched_key = <<>> /\ fallback_key = <<>> /\ caught = <<>>

(***************************************************************************)
(* SpecGate: is_semantic_match on bounded texts                            *)
(***************************************************************************)
MaxPFrags == 2
MaxKFrags == 2
MaxEvals == 2

GatePFrags == {<<Marker, " ">>, <<"N", "u", "r", "s", "e", " ">>, <<"B", "e", "d", " ", "D", "a", "y">>,
               <<"r", "a", "t", "e">>, <<"S", "T", "A", "F", "F">>, <<" ", "c", "o", "s", "t">>}
GateKFrags == {<<"B", "e", "d", "D", "a", "y">>, <<"O", "c", "c", "u", "p", "i", "e", "d">>,
               <<"s">>, <<"R", "a", "t", "e">>, <<"C", "o", "s", "t">>, <<"B", "e", "d">>}

GateInit ==
    /\ arg \in Texts(GatePFrags, MaxPFrags) \X Texts(GateKFrags, MaxKFrags)
    /\ ret = <<>>
    /\ GroqIdle /\ AggIdle /\ OrchIdle

\* One evaluation of is_semantic_match(label, candidate); the pair can be
\* evaluated again, ret keeping the verdicts in order.
GateEval ==
    /\ Len(ret) < MaxEvals
    /\ ret' = Append(ret, is_semantic_match(arg[1], arg[2]))
    /\ UNCHANGED <<arg, groqVars, aggVars, orchVars>>

GateNext == GateEval

SpecGate == GateInit /\ [][GateNext]_vars

\* Rule 1 of the claim: a role term in the label, a bed-day term in the key.
C6_Rule1(pl, kl) ==
    /\ \E w \in {W_nurse, W_care_worker, W_care_minutes, W_personal_care, W_staff,
                 W_management, W_allied_health} : Contains(w, pl)
    /\ \E b \in {W_bedday, W_occupiedbeddays, W_availablebeddays} : Contains(b, kl)
\* Rule 2 of the claim: "bed day" in the label, no bed-day term in the key.
C6_Rule2(pl, kl) ==
    /\ Contains(W_bed_day, pl)
    /\ \A b \in {W_bedday, W_occupiedbeddays, W_availablebeddays} : ~Contains(b, kl)
\* Rule 3 of the claim: "rate" in the label and not in the key.
C6_Rule3(pl, kl) == Contains(W_rate, pl) /\ ~Contains(W_rate, kl)

\* C6: is_semantic_match returns false exactly when rule 1, rule 2 or rule 3
\* rejects the pair, each compared case-insensitively by substring, and true in
\* every other case.
C6_GateVerdict ==
    ret # <<>> =>
        LET pl == Lower(arg[1])
            kl == Lower(arg[2])
        IN  ret[1] = ~(C6_Rule1(pl, kl) \/ C6_Rule2(pl, kl) \/ C6_Rule3(pl, kl))

\* C6 witness: a pair that only rule 2 rejects, in mixed case, has been evaluated.
C6_Witness ==
    /\ ret = <<FALSE>>
    /\ arg[1] # Lower(arg[1])
    /\ C6_Rule2(Lower(arg[1]), Lower(arg[2]))
    /\ ~C6_Rule1(Lower(arg[1]), Lower(arg[2]))
    /\ ~C6_Rule3(Lower(arg[1]), Lower(arg[2]))

\* The three `if` blocks of is_semantic_match, each taken alone: block n
\* returns False on the lowered pair.
RuleRejects(n, placeholder_lower, matched_key_lower) ==
    IF n = 1
    THEN /\ \E word \in RoleWords : Contains(word, placeholder_lower)
         /\ \E bad_word \in BedDayWords : Contains(bad_word, matched_key_lower)
    ELSE IF n = 2
    THEN /\ Contains(W_bed_day, placeholder_lower)
         /\ ~(\E good_word \in BedDayWords : Contains(good_word, matched_key_lower))
    ELSE /\ Contains(W_rate, placeholder_lower)
         /\ ~Contains(W_rate, matched_key_lower)

RECURSIVE GateInOrder(_, _, _)
\* The blocks run one after the other in the given order, the first that
\* rejects returning False and the end of the list returning True.
GateInOrder(order, placeholder_lower, matched_key_lower) ==
    IF order = <<>> THEN TRUE
    ELSE IF RuleRejects(Head(order), placeholder_lower, matched_key_lower) THEN FALSE
    ELSE GateInOrder(Tail(order), placeholder_lower, matched_key_lower)

\* Every order of the three blocks.
RuleOrders == {o \in [1..3 -> 1..3] : \A m, n \in 1..3 : o[m] = o[n] => m = n}

\* C13: is_semantic_match is pure and deterministic: evaluations of the same
\* pair give the same verdict, an evaluation changes nothing but its result,
\* and the verdict is the one the three rules give in any order.
C13_PureOrderFree ==
    /\ [](ret # <<>> =>
            /\ \A n \in 1..Len(ret) : ret[n] = ret[1]
            /\ \A order \in RuleOrders :
                   ret[1] = GateInOrder(order, Lower(arg[1]), Lower(arg[2])))
    /\ [][UNCHANGED <<arg, groqVars, aggVars, orchVars>>]_vars

\* C13 witness: a pair that rules 2 and 3 both reject has been evaluated twice,
\* so which rule rejects first depends on the order.
C13_Witness ==
    /\ Len(ret) = 2
    /\ ret[2] = FALSE
    /\ RuleRejects(2, Lower(arg[1]), Lower(arg[2]))
    /\ RuleRejects(3, Lower(arg[1]), Lower(arg[2]))
    /\ ~RuleRejects(1, Lower(arg[1]), Lower(arg[2]))

(***************************************************************************)
(* SpecFallback: fallback_match on bounded placeholders and key lists      *)
(***************************************************************************)
MaxKeys == 2

FallbackPlaceholders == {P_Nurse, P_BedDayRate, P_Corporate, P_Bare,
                         <<Marker, " ", "n", "u", "r", "s", "e", "c", "o", "s", "t">>}
FallbackKeys == {StrKey(K_NurseCost), StrKey(K_nursecost), StrKey(K_OccupiedBedDays),
                 StrKey(K_BedDayRate), StrKey(K_HourlyRate), StrKey(<<>>)}

FallbackInit ==
    /\ arg \in FallbackPlaceholders \X UNION {[1..m -> FallbackKeys] : m \in 0..MaxKeys}
    /\ ret = <<>>
    /\ GroqIdle /\ AggIdle /\ OrchIdle

\* One evaluation of fallback_match(label, keys).
FallbackEval ==
    /\ ret = <<>>
    /\ ret' = <<fallback_match(arg[1], arg[2])>>
    /\ UNCHANGED <<arg, groqVars, aggVars, orchVars>>

FallbackNext == FallbackEval

SpecFallback == FallbackInit /\ [][FallbackNext]_vars

\* The similarity of candidate n to the cleaned label is below 0.4.
C7_Below(label, keys, n) ==
    ~AtLeastCutoff(ratio(Lower(keys[n].text), Lower(Strip(label, {Marker, " "}))))

\* C7: fallback_match returns none or an element of the supplied list, in the
\* casing the list has it, and returns none when every candidate's similarity
\* to the cleaned label is below 0.4.
C7_FallbackInList ==
    ret # <<>> =>
        /\ ~ret[1].raised
        /\ \/ ret[1].value[1] = None
           \/ \E n \in 1..Len(arg[2]) : arg[2][n] = ret[1].value[1]
        /\ (\A n \in 1..Len(arg[2]) : C7_Below(arg[1], arg[2], n))
               => ret[1].value[1] = None

\* C7 witness: from a list holding two keys that differ only in case, the
\* second one spelled as the cleaned label, the first one is returned.
C7_Witness ==
    /\ ret # <<>>
    /\ Len(arg[2]) = 2
    /\ arg[2][1] # arg[2][2]
    /\ Lower(arg[2][1].text) = Lower(arg[2][2].text)
    /\ arg[2][2].text = Lower(Strip(arg[1], {Marker, " "}))
    /\ ret[1] = Returned(arg[2][1])

(***************************************************************************)
(* call_groq                                                               *)
(***************************************************************************)
\* The defaults of call_groq(prompt, retries=3, backoff_factor=1).
DefaultRetries == 3
DefaultBackoffFactor == 1

\* What requests.post gives: a connection failure, or a response with a status
\* code and a body; has_json says whether the body is the completion JSON
\* (choices[0].message.content = content).
ConnectionFailure == [failed |-> TRUE, status_code |-> 0, has_json |-> FALSE, content |-> <<>>]
HttpResponse(code, has_json, content) ==
    [failed |-> FALSE, status_code |-> code, has_json |-> has_json, content |-> content]

\* Response.raise_for_status() raises HTTPError for a 4xx or 5xx status.
RaisesForStatus(r) == 400 <= r.status_code /\ r.status_code < 600

ExhaustedError == "Rate limit exceeded after retries."

GroqAttemptOffByOne(st, r) ==
    IF r.failed
    THEN [st EXCEPT !.requests = @ + 1,
                    !.outcome = <<RaisedWith("ConnectionError")>>]
    ELSE IF r.status_code = 429
    THEN [st EXCEPT !.response = <<r>>, !.requests = @ + 1,
                    !.waits = Append(@, st.backoff_factor * st.i),
                    !.i = @ + 1]
    ELSE IF RaisesForStatus(r)
    THEN [st EXCEPT !.response = <<r>>, !.requests = @ + 1,
                    !.outcome = <<RaisedWith("HTTPError")>>]
    ELSE IF ~r.has_json
    THEN [st EXCEPT !.response = <<r>>, !.requests = @ + 1,
                    !.outcome = <<RaisedWith("JSONDecodeError")>>]
    ELSE [st EXCEPT !.response = <<r>>, !.requests = @ + 1,
                    !.outcome = <<Returned(Strip(r.content, {" "}))>>]

GroqAttemptDoubling(st, r) ==
    IF r.failed
    THEN [st EXCEPT !.requests = @ + 1,
                    !.outcome = <<RaisedWith("ConnectionError")>>]
    ELSE IF r.status_code = 429
    THEN [st EXCEPT !.response = <<r>>, !.requests = @ + 1,
                    !.waits = Append(@, st.backoff_factor * (2 ^ st.i)),
                    !.i = @ + 1]
    ELSE IF RaisesForStatus(r)
    THEN [st EXCEPT !.response = <<r>>, !.requests = @ + 1,
                    !.outcome = <<RaisedWith("HTTPError")>>]
    ELSE IF ~r.has_json
    THEN [st EXCEPT !.response = <<r>>, !.requests = @ + 1,
                    !.outcome = <<RaisedWith("JSONDecodeError")>>]
    ELSE [st EXCEPT !.response = <<r>>, !.requests = @ + 1,
                    !.outcome = <<Returned(Strip(r.content, {" "}))>>]

\* One pass of the loop `for i in range(retries)`, given what requests.post
\* gives this time. st holds the call's parameters, locals and effects; i
\* counts the passes made (the pass runs with the loop variable at st.i).
GroqAttempt(st, r) ==
    IF r.failed
    THEN [st EXCEPT !.requests = @ + 1,
                    !.outcome = <<RaisedWith("ConnectionError")>>]
    ELSE IF r.status_code = 429
    THEN [st EXCEPT !.response = <<r>>, !.requests = @ + 1,
                    !.waits = Append(@, st.backoff_factor * (st.i + 1)),
                    !.i = @ + 1]
    ELSE IF RaisesForStatus(r)
    THEN [st EXCEPT !.response = <<r>>, !.requests = @ + 1,
                    !.outcome = <<RaisedWith("HTTPError")>>]
    ELSE IF ~r.has_json
    THEN [st EXCEPT !.response = <<r>>, !.requests = @ + 1,
                    !.outcome = <<RaisedWith("JSONDecodeError")>>]
    ELSE [st EXCEPT !.response = <<r>>, !.requests = @ + 1,
                    !.outcome = <<Returned(Strip(r.content, {" "}))>>]

\* The loop is over: raise Exception("Rate limit exceeded after retries.").
GroqGiveUp(st) == [st EXCEPT !.outcome = <<RaisedWith(ExhaustedError)>>]

\* The state of a call as it starts.
GroqStart(n, factor) ==
    [retries |-> n, backoff_factor |-> factor, i |-> 0, response |-> <<>>,
     requests |-> 0, waits |-> <<>>, outcome |-> <<>>]

RECURSIVE GroqRun(_, _)
\* The call run to its end on a stream of responses.
GroqRun(st, responses) ==
    IF st.outcome # <<>> THEN st
    ELSE IF st.i >= st.retries THEN GroqGiveUp(st)
    ELSE Only({GroqRun(next, responses) :
               next \in {GroqAttempt(st, responses[st.i + 1])}})

\* call_groq(prompt) with the default parameters, as match_placeholder_with_ai
\* calls it: the final state of the call.
call_groq(responses) == GroqRun(GroqStart(DefaultRetries, DefaultBackoffFactor), responses)

(***************************************************************************)
(* SpecGroq: one call of call_groq, pass by pass                           *)
(***************************************************************************)
MaxRetries == 3
MaxBackoffFactor == 2

GroqResponses ==
    {ConnectionFailure,
     HttpResponse(429, FALSE, <<>>),
     HttpResponse(500, FALSE, <<>>),
     HttpResponse(401, TRUE, R_Unknown),
     HttpResponse(304, FALSE, <<>>),
     HttpResponse(200, TRUE, R_NurseCost_padded),
     HttpResponse(200, TRUE, R_OccupiedBedDays)}

GroqState ==
    [retries |-> retries, backoff_factor |-> backoff_factor, i |-> i, response |-> response,
     requests |-> requests, waits |-> waits, outcome |-> outcome]

GroqSet(st) ==
    /\ retries' = st.retries /\ backoff_factor' = st.backoff_factor
    /\ i' = st.i /\ response' = st.response /\ requests' = st.requests
    /\ waits' = st.waits /\ outcome' = st.outcome

GroqInit ==
    /\ retries \in 0..MaxRetries
    /\ backoff_factor \in 0..MaxBackoffFactor
    /\ i = 0 /\ response = <<>> /\ requests = 0 /\ waits = <<>> /\ outcome = <<>>
    /\ FnIdle /\ AggIdle /\ OrchIdle

\* One pass of the loop: a request and what the code does with the response.
GroqPass ==
    /\ outcome = <<>>
    /\ i < retries
    /\ \E r \in GroqResponses : GroqSet(GroqAttempt(GroqState, r))
    /\ UNCHANGED <<fnVars, aggVars, orchVars>>

\* The loop has ended without a return: the call raises.
GroqExhausted ==
    /\ outcome = <<>>
    /\ i >= retries
    /\ GroqSet(GroqGiveUp(GroqState))
    /\ UNCHANGED <<fnVars, aggVars, orchVars>>

GroqNext == GroqPass \/ GroqExhausted

SpecGroq == GroqInit /\ [][GroqNext]_vars

\* C4: a call sends at most `retries` requests; the wait after the 429 of
\* attempt n is backoff_factor * n and, while every request so far was a 429
\* and attempts remain, another attempt follows; any other non-success status
\* fails the call at that request (a 4xx or 5xx with HTTPError); a
\* success returns the trimmed text of the first choice at that request; when
\* every one of the `retries` attempts was a 429 the call fails with the
\* retries-exhausted error; a finished call sends nothing more.
C4_RetryPolicy ==
    /\ requests <= retries
    /\ Len(waits) = i
    /\ \A n \in 1..Len(waits) : waits[n] = backoff_factor * n
    /\ (requests = i /\ i < retries) => (outcome = <<>> /\ ENABLED GroqPass)
    /\ (response # <<>> /\ response[1].status_code # 429 /\ RaisesForStatus(response[1]))
           => (outcome = <<RaisedWith("HTTPError")>> /\ requests = i + 1)
    /\ (response # <<>> /\ response[1].status_code \notin {200, 429})
           => (outcome # <<>> /\ outcome[1].raised /\ requests = i + 1)
    /\ (response # <<>> /\ response[1].status_code = 200)
           => (outcome = <<Returned(Strip(response[1].content, {" "}))>> /\ requests = i + 1)
    /\ (outcome = <<RaisedWith(ExhaustedError)>>) <=> (outcome # <<>> /\ i = retries /\ requests = retries)
    /\ (outcome # <<>>) => ~ENABLED GroqNext

\* C4 witness: with the defaults, three 429 responses in a row were each waited
\* for 1, 2 and 3 seconds and the call gave up.
C4_Witness ==
    /\ retries = DefaultRetries /\ backoff_factor = DefaultBackoffFactor
    /\ requests = 3 /\ waits = <<1, 2, 3>>
    /\ outcome = <<RaisedWith(ExhaustedError)>>

RECURSIVE TotalWait(_)
\* The seconds slept in all, over a sequence of waits.
TotalWait(slept) == IF slept = <<>> THEN 0 ELSE Head(slept) + TotalWait(Tail(slept))

RECURSIVE BackoffSum(_, _)
\* The sum of factor * k for k = 1..n.
BackoffSum(factor, n) == IF n = 0 THEN 0 ELSE factor * n + BackoffSum(factor, n - 1)

\* C12: the waits of one call add up to at most the sum of backoff_factor * k
\* for k = 1..retries, and to exactly that sum when the call gives up after
\* its last retry; with retries = 3 and backoff_factor = 1 that is at most 6
\* seconds; no single wait is longer than backoff_factor * retries.
C12_BoundedBackoff ==
    /\ TotalWait(waits) <= BackoffSum(backoff_factor, retries)
    /\ (outcome = <<RaisedWith(ExhaustedError)>>) =>
           TotalWait(waits) = BackoffSum(backoff_factor, retries)
    /\ (retries = 3 /\ backoff_factor = 1) => TotalWait(waits) <= 6
    /\ \A n \in 1..Len(waits) : waits[n] <= backoff_factor * retries

\* C12 witness: a call with the default parameters has given up after having
\* slept 6 seconds in all, its longest wait 3 seconds.
C12_Witness ==
    /\ retries = DefaultRetries /\ backoff_factor = DefaultBackoffFactor
    /\ outcome = <<RaisedWith(ExhaustedError)>>
    /\ TotalWait(waits) = 6
    /\ \E n \in 1..Len(waits) : waits[n] = 3

(***************************************************************************)
(* build_aggregated_costs                                                  *)
(***************************************************************************)
K_OutbreakCost == <<"O", "u", "t", "b", "r", "e", "a", "k", "C", "o", "s", "t">>
K_Site == <<"S", "i", "t", "e">>
V_Nurse == <<"N", "u", "r", "s", "e">>
V_Carer == <<"C", "a", "r", "e", "r">>

\* A source table as pd.read_csv gives it: its columns in header order, each
\* with its name, whether its dtype is a number, and its cells row by row.
\* Amounts are counted in thousandths. A cell is a number or a text, written
\* as the key it would make.
NumColumn(name, numbers) ==
    [name |-> name, numeric |-> TRUE,
     cells |-> [n \in 1..Len(numbers) |-> NumKey(numbers[n])]]
TextColumn(name, texts) ==
    [name |-> name, numeric |-> FALSE,
     cells |-> [n \in 1..Len(texts) |-> StrKey(texts[n])]]

\* A dict is the sequence of its <<key, value>> items in insertion order.
DictKeys(d) == [n \in 1..Len(d) |-> d[n][1]]
DictHas(d, k) == \E n \in 1..Len(d) : d[n][1] = k
\* dict.get(k, default)
DictGet(d, k, default) ==
    IF DictHas(d, k) THEN d[CHOOSE n \in 1..Len(d) : d[n][1] = k][2] ELSE default
\* d[k] = v: a key the dict has keeps its place, a new key goes last.
DictSet(d, k, v) ==
    IF DictHas(d, k)
    THEN [n \in 1..Len(d) |-> IF d[n][1] = k THEN <<k, v>> ELSE d[n]]
    ELSE Append(d, <<k, v>>)

RECURSIVE DictUpdate(_, _)
\* dict.update(other)
DictUpdate(d, other) ==
    IF other = <<>> THEN d
    ELSE DictUpdate(DictSet(d, other[1][1], other[1][2]), Tail(other))

\* df.select_dtypes(include='number'): the columns whose dtype is a number.
select_dtypes_number(df) == SelectSeq(df, LAMBDA col : col.numeric)

\* name in df.columns
HasColumn(df, name) == \E n \in 1..Len(df) : df[n].name = name
\* df[name]
Column(df, name) == df[CHOOSE n \in 1..Len(df) : df[n].name = name]

RECURSIVE SumCells(_)
\* Series.sum()
SumCells(cells) == IF cells = <<>> THEN 0 ELSE Head(cells).num + SumCells(Tail(cells))

RECURSIVE Ascending(_)
\* The numbers of a set in ascending order.
Ascending(S) ==
    IF S = {} THEN <<>>
    ELSE Only({<<least>> \o Ascending(S \ {least}) :
               least \in {CHOOSE x \in S : \A y \in S : x <= y}})

RECURSIVE SumWhere(_, _, _)
\* The total of the amount cells in the rows whose category cell is v.
SumWhere(categories, amounts, v) ==
    IF categories = <<>> THEN 0
    ELSE (IF Head(categories) = v THEN Head(amounts).num ELSE 0)
         + SumWhere(Tail(categories), Tail(amounts), v)

GroupTotal(by, amount, v) == SumWhere(by.cells, amount.cells, v)

\* df.groupby(by)[amount].sum().to_dict() on number columns: one item per
\* distinct category, the categories ascending.
GroupSumDict(df, by, amount) ==
    Only({[n \in 1..Len(cats) |->
              <<NumKey(cats[n]),
                GroupTotal(Column(df, by), Column(df, amount), NumKey(cats[n]))>>] :
          cats \in {Ascending({Column(df, by).cells[n].num :
                                 n \in 1..Len(Column(df, by).cells)})}})

RECURSIVE AddColumnsOverwriting(_, _)
AddColumnsOverwriting(d, df) ==
    IF df = <<>> THEN d
    ELSE AddColumnsOverwriting(DictSet(d, StrKey(df[1].name), SumCells(df[1].cells)), Tail(df))

RECURSIVE AddColumns(_, _)
\* for col in df.columns: combined[col] = combined.get(col, 0) + df[col].sum()
AddColumns(d, df) ==
    IF df = <<>> THEN d
    ELSE AddColumns(DictSet(d, StrKey(df[1].name),
                            DictGet(d, StrKey(df[1].name), 0) + SumCells(df[1].cells)),
                    Tail(df))

\* The body of the loop over source_paths, for the table read from one path.
AggregateSource(d, table) ==
    Only({IF HasColumn(df, K_Role) /\ HasColumn(df, K_Cost_AUD)
          THEN DictUpdate(d, GroupSumDict(df, K_Role, K_Cost_AUD))
          ELSE IF HasColumn(df, K_Field) /\ HasColumn(df, K_Value)
          THEN DictUpdate(d, GroupSumDict(df, K_Field, K_Value))
          ELSE AddColumns(d, df) :
          df \in {select_dtypes_number(table)}})

RECURSIVE AggregateFrom(_, _)
AggregateFrom(d, tables) ==
    IF tables = <<>> THEN d
    ELSE AggregateFrom(AggregateSource(d, Head(tables)), Tail(tables))

\* build_aggregated_costs(source_paths), the tables standing for their paths.
build_aggregated_costs(tables) == AggregateFrom(<<>>, tables)

(***************************************************************************)
(* SpecAgg: build_aggregated_costs, source by source                       *)
(***************************************************************************)
MaxSources == 2

T_AgencyText == <<TextColumn(K_Role, <<V_Nurse, V_Carer, V_Nurse>>),
                  NumColumn(K_Cost_AUD, <<1000, 2504, 1000>>)>>
T_AgencyCode == <<NumColumn(K_Role, <<2, 1, 2>>),
                  NumColumn(K_Cost_AUD, <<1000, 2504, 1000>>)>>
T_AgencyCodeLater == <<NumColumn(K_Role, <<2>>), NumColumn(K_Cost_AUD, <<500>>)>>
T_FieldText == <<TextColumn(K_Field, <<V_Carer, V_Carer>>), NumColumn(K_Value, <<2000, 12>>)>>
T_FieldCode == <<NumColumn(K_Field, <<1, 3>>), NumColumn(K_Value, <<2000, 12>>),
                 NumColumn(K_Hours, <<4000, 4000>>)>>
T_Hours == <<TextColumn(K_Site, <<V_Nurse, V_Carer>>), NumColumn(K_Hours, <<8000, 7500>>),
             NumColumn(K_NurseCost, <<1000, 2504>>)>>
T_HoursLater == <<NumColumn(K_Hours, <<500>>), NumColumn(K_OutbreakCost, <<>>)>>
T_CostOnly == <<NumColumn(K_Cost_AUD, <<4000, 2>>)>>

T_Beds == <<NumColumn(K_OccupiedBedDays, <<500000>>), NumColumn(K_BedDayRate, <<2504, 1000>>)>>

AggTables == {T_AgencyText, T_AgencyCode, T_AgencyCodeLater, T_FieldText, T_FieldCode,
              T_Hours, T_HoursLater, T_CostOnly, T_Beds}

AggInit ==
    /\ source_paths \in UNION {[1..m -> AggTables] : m \in 0..MaxSources}
    /\ path_idx = 0
    /\ combined = <<>>
    /\ FnIdle /\ GroqIdle /\ OrchIdle

\* One pass of `for path in source_paths`.
AggPass ==
    /\ path_idx < Len(source_paths)
    /\ combined' = AggregateSource(combined, source_paths[path_idx + 1])
    /\ path_idx' = path_idx + 1
    /\ UNCHANGED <<source_paths, fnVars, groqVars, orchVars>>

AggNext == AggPass

SpecAgg == AggInit /\ [][AggNext]_vars

\* The header of the table has the column pair (category, amount).
HasPair(table, category, amount) == HasColumn(table, category) /\ HasColumn(table, amount)
\* The category pair of a table that has one.
PairOf(table) == IF HasPair(table, K_Role, K_Cost_AUD) THEN <<K_Role, K_Cost_AUD>>
                 ELSE <<K_Field, K_Value>>
Recognized(table) == HasPair(table, K_Role, K_Cost_AUD) \/ HasPair(table, K_Field, K_Value)

\* C8: once a source with the pair (Role, Cost_AUD) or (Field, Value) in its
\* header is merged, the lookup holds, for every distinct category value of
\* that source, text or number, the sum of that category's amount rows, in
\* place of whatever an earlier source stored under the key.
C8_CategorySums ==
    (path_idx > 0 /\ Recognized(source_paths[path_idx])) =>
        LET table == source_paths[path_idx]
            by == Column(table, PairOf(table)[1])
            amount == Column(table, PairOf(table)[2])
        IN  \A n \in 1..Len(by.cells) :
                /\ DictHas(combined, by.cells[n])
                /\ DictGet(combined, by.cells[n], 0) = GroupTotal(by, amount, by.cells[n])

\* C8 on the sources whose category column holds numbers.
C8_NumericCategorySums ==
    (path_idx > 0 /\ Recognized(source_paths[path_idx])
        /\ Column(source_paths[path_idx], PairOf(source_paths[path_idx])[1]).numeric)
    => C8_CategorySums

\* The total of column c in a table (0 when the table has no number column c).
ColumnTotal(table, c) ==
    IF \E n \in 1..Len(table) : table[n].name = c /\ table[n].numeric
    THEN SumCells(Column(table, c).cells) ELSE 0

RECURSIVE TotalAcross(_, _)
\* The sum of the totals of column c over a list of tables.
TotalAcross(tables, c) ==
    IF tables = <<>> THEN 0
    ELSE ColumnTotal(Head(tables), c) + TotalAcross(Tail(tables), c)

\* The names of the number columns of a table.
NumberColumns(table) == {table[n].name : n \in {n \in 1..Len(table) : table[n].numeric}}

\* Merging a source without a category pair adds each number column's total
\* to the value under the column's name, 0 when absent, and changes no other key.
C9_Step ==
    (path_idx' = path_idx + 1 /\ ~Recognized(source_paths[path_idx + 1])) =>
        LET table == source_paths[path_idx + 1]
        IN  /\ \A c \in NumberColumns(table) :
                   /\ DictHas(combined', StrKey(c))
                   /\ DictGet(combined', StrKey(c), 0)
                          = DictGet(combined, StrKey(c), 0) + ColumnTotal(table, c)
            /\ \A n \in 1..Len(combined) :
                   (combined[n][1].isnum \/ combined[n][1].text \notin NumberColumns(table))
                       => combined'[n] = combined[n]
            /\ \A n \in 1..Len(combined') :
                   \/ DictHas(combined, combined'[n][1])
                   \/ (~combined'[n][1].isnum /\ combined'[n][1].text \in NumberColumns(table))

\* After only sources without a category pair, the value under a column name is
\* the sum of that column's totals across them.
C9_Totals ==
    (\A n \in 1..path_idx : ~Recognized(source_paths[n])) =>
        LET done == SubSeq(source_paths, 1, path_idx)
        IN  /\ \A n \in 1..Len(combined) :
                   /\ ~combined[n][1].isnum
                   /\ combined[n][2] = TotalAcross(done, combined[n][1].text)
            /\ \A n \in 1..path_idx : \A c \in NumberColumns(source_paths[n]) :
                   DictHas(combined, StrKey(c))

\* C9: a source without a recognized category pair adds each of its number
\* columns' totals to lookup[c], from 0 when c is absent, and leaves every other
\* key as it was; over a sequence of such sources lookup[c] is the sum of the
\* totals of c across them.
C9_Accumulates == [][C9_Step]_vars /\ []C9_Totals

\* C9 witness: two sources without a category pair that share a column are
\* merged, and the lookup holds the sum of the two totals under its name.
C9_Witness ==
    /\ path_idx = 2
    /\ ~Recognized(source_paths[1]) /\ ~Recognized(source_paths[2])
    /\ source_paths[1] # source_paths[2]
    /\ ColumnTotal(source_paths[1], K_Hours) > 0
    /\ ColumnTotal(source_paths[2], K_Hours) > 0
    /\ DictGet(combined, StrKey(K_Hours), 0)
           = ColumnTotal(source_paths[1], K_Hours) + ColumnTotal(source_paths[2], K_Hours)

(***************************************************************************)
(* populate_template_excel                                                 *)
(***************************************************************************)
\* A cell of the worksheet: its value (None, a text or a number), whether it
\* is a MergedCell (value None, and assigning its value raises
\* AttributeError), and how many times the run has assigned its value.
EmptyCell == [kind |-> "none", text |-> <<>>, num |-> 0, writes |-> 0]
MergedCell == [kind |-> "merged", text |-> <<>>, num |-> 0, writes |-> 0]
TextCell(s) == [kind |-> "str", text |-> s, num |-> 0, writes |-> 0]
NumberCell(n) == [kind |-> "num", text |-> <<>>, num |-> n, writes |-> 0]

\* round(value, 2) on an amount counted in thousandths: the nearest hundredth,
\* a tie going to the even one.
Round2(v) ==
    LET q == v \div 10
        r == v % 10
    IN  IF r < 5 THEN 10 * q
        ELSE IF r > 5 THEN 10 * (q + 1)
        ELSE IF q % 2 = 0 THEN 10 * q ELSE 10 * (q + 1)

\* isinstance(cell.value, str) and cell.value.strip().startswith(Marker)
IsPlaceholderCell(cell) ==
    /\ cell.kind = "str"
    /\ Strip(cell.text, {" "}) # <<>>
    /\ Strip(cell.text, {" "})[1] = Marker

\* The bool() of a fallback key: None and the empty text are false.
Truthy(key) == key # None /\ (key.isnum \/ key.text # <<>>)

\* What match_placeholder_with_ai can give, over every stream of responses the
\* service can send to one call: a text, or an exception.
AiResponses ==
    {ConnectionFailure,
     HttpResponse(429, FALSE, <<>>),
     HttpResponse(500, FALSE, <<>>),
     HttpResponse(200, TRUE, R_NurseCost_padded),
     HttpResponse(200, TRUE, R_OccupiedBedDays),
     HttpResponse(200, TRUE, R_Unknown)}
match_placeholder_with_ai ==
    {call_groq(responses).outcome[1] : responses \in [1..DefaultRetries -> AiResponses]}

\* The worksheet has the cells of the template, columns 1..NumCols, and one
\* column more to their right for the value written beside the last column.
NumCols == 3
Rows == {1}
Cols == 1..NumCols
Cells == Rows \X (1..(NumCols + 1))

\* ws.iter_rows(): the cells of the template row by row, each row left to
\* right; the column range is fixed when the iteration starts.
IterOrder(n) == <<((n - 1) \div NumCols) + 1, ((n - 1) % NumCols) + 1>>
LastCell == Cardinality(Rows) * NumCols

P_BedDayRate_padded == <<" ">> \o P_BedDayRate \o <<" ">>

TemplateCells == {EmptyCell, MergedCell, TextCell(P_Nurse), TextCell(P_BedDayRate_padded),
                  TextCell(K_Hours), NumberCell(7000)}
Templates ==
    {[pos \in Cells |-> IF pos[2] <= NumCols THEN t[pos] ELSE EmptyCell] :
        t \in [Rows \X Cols -> TemplateCells]}

T_Occupied == <<NumColumn(K_OccupiedBedDays, <<500000>>)>>

OrchSources == {<<T_Hours, T_Beds>>, <<T_AgencyCode, T_Hours>>, <<T_AgencyText>>, <<T_Beds>>,
                <<T_Occupied>>}

Init ==
    /\ source_paths \in OrchSources
    /\ template \in Templates
    /\ ws = template
    /\ pc = "aggregate"
    /\ cost_lookup = <<>> /\ cursor = 0 /\ mappings = <<>>
    /\ success = 0 /\ total = 0 /\ suspicious_count = 0 /\ saved = <<>>
    /\ accuracy = <<>> /\ data_correctness = <<>>
    /\ placeholder = <<>> /\ matched_key = <<>> /\ fallback_key = <<>> /\ caught = <<>>
    /\ path_idx = 0 /\ combined = <<>>
    /\ FnIdle /\ GroqIdle

\* Lines 92-104: load the workbook, build the lookup, start the counters.
Aggregate ==
    /\ pc = "aggregate"
    /\ cost_lookup' = build_aggregated_costs(source_paths)
    /\ cursor' = 1
    /\ pc' = IF LastCell >= 1 THEN "loop" ELSE "save"
    /\ UNCHANGED <<template, ws, mappings, success, total, suspicious_count, saved, accuracy,
                   data_correctness, placeholder, matched_key, fallback_key, caught,
                   fnVars, groqVars, aggVars>>

Advance ==
    /\ cursor' = cursor + 1
    /\ pc' = IF cursor + 1 > LastCell THEN "save" ELSE "loop"

\* Line 108: a cell that is no placeholder is passed over.
VisitOther ==
    /\ pc = "loop"
    /\ ~IsPlaceholderCell(ws[IterOrder(cursor)])
    /\ Advance
    /\ UNCHANGED <<template, cost_lookup, ws, mappings, success, total, suspicious_count, saved,
                   accuracy, data_correctness, placeholder, matched_key, fallback_key,
                   caught, fnVars, groqVars, aggVars>>

\* The effects of one pass of the loop body on a placeholder.
Effects(key, fb, map, sheet, ok, bad, err) ==
    [matched_key |-> key, fallback_key |-> fb, mappings |-> map, ws |-> sheet,
     success |-> ok, suspicious_count |-> bad, caught |-> err]

\* Lines 123-127: the key is accepted.
AcceptedNoMapping(cell_pos, text, key, fb) ==
    LET target == <<cell_pos[1], cell_pos[2] + 1>>
    IN  IF ~DictHas(cost_lookup, key)
        THEN Effects(<<key>>, fb, mappings, ws, success, suspicious_count, <<>>)
        ELSE IF ws[target].kind = "merged"
        THEN Effects(<<key>>, fb, mappings, ws, success, suspicious_count + 1,
                     <<"AttributeError">>)
        ELSE Effects(<<key>>, fb, mappings,
                     [ws EXCEPT ![target] =
                         [kind |-> "num", text |-> <<>>,
                          num |-> Round2(DictGet(cost_lookup, key, 0)),
                          writes |-> @.writes + 1]],
                     success + 1, suspicious_count, <<>>)

AcceptedCountedFirst(cell_pos, text, key, fb) ==
    LET target == <<cell_pos[1], cell_pos[2] + 1>>
        recorded == DictSet(mappings, text, key)
    IN  IF ~DictHas(cost_lookup, key)
        THEN Effects(<<key>>, fb, recorded, ws, success, suspicious_count, <<>>)
        ELSE IF ws[target].kind = "merged"
        THEN Effects(<<key>>, fb, recorded, ws, success + 1, suspicious_count + 1,
                     <<"AttributeError">>)
        ELSE Effects(<<key>>, fb, recorded,
                     [ws EXCEPT ![target] =
                         [kind |-> "num", text |-> <<>>,
                          num |-> Round2(DictGet(cost_lookup, key, 0)),
                          writes |-> @.writes + 1]],
                     success + 1, suspicious_count, <<>>)

AcceptedUnrounded(cell_pos, text, key, fb) ==
    LET target == <<cell_pos[1], cell_pos[2] + 1>>
        recorded == DictSet(mappings, text, key)
    IN  IF ~DictHas(cost_lookup, key)
        THEN Effects(<<key>>, fb, recorded, ws, success, suspicious_count, <<>>)
        ELSE IF ws[target].kind = "merged"
        THEN Effects(<<key>>, fb, recorded, ws, success, suspicious_count + 1,
                     <<"AttributeError">>)
        ELSE Effects(<<key>>, fb, recorded,
                     [ws EXCEPT ![target] =
                         [kind |-> "num", text |-> <<>>,
                          num |-> DictGet(cost_lookup, key, 0),
                          writes |-> @.writes + 1]],
                     success + 1, suspicious_count, <<>>)

\* Lines 123-127: the key is accepted. The mapping is recorded; a key the
\* lookup has is written, rounded, into the next cell of the row and counted a
\* success; assigning the value of a MergedCell raises, which line 128 catches.
Accepted(cell_pos, text, key, fb) ==
    LET target == <<cell_pos[1], cell_pos[2] + 1>>
        recorded == DictSet(mappings, text, key)
    IN  IF ~DictHas(cost_lookup, key)
        THEN Effects(<<key>>, fb, recorded, ws, success, suspicious_count, <<>>)
        ELSE IF ws[target].kind = "merged"
        THEN Effects(<<key>>, fb, recorded, ws, success, suspicious_count + 1,
                     <<"AttributeError">>)
        ELSE Effects(<<key>>, fb, recorded,
                     [ws EXCEPT ![target] =
                         [kind |-> "num", text |-> <<>>,
                          num |-> Round2(DictGet(cost_lookup, key, 0)),
                          writes |-> @.writes + 1]],
                     success + 1, suspicious_count, <<>>)

AfterFallbackNoContinue(cell_pos, text, proposal, fb) ==
    IF fb.raised
    THEN Effects(<<StrKey(proposal)>>, fallback_key, mappings, ws, success,
                 suspicious_count + 1, fb.value)
    ELSE IF Truthy(fb.value[1]) /\ is_semantic_match(text, fb.value[1].text)
    THEN Accepted(cell_pos, text, fb.value[1], fb.value)
    ELSE [Accepted(cell_pos, text, StrKey(proposal), fb.value)
              EXCEPT !.suspicious_count = @ + 1]

AfterFallbackUngated(cell_pos, text, proposal, fb) ==
    IF fb.raised
    THEN Effects(<<StrKey(proposal)>>, fallback_key, mappings, ws, success,
                 suspicious_count + 1, fb.value)
    ELSE IF Truthy(fb.value[1])
    THEN Accepted(cell_pos, text, fb.value[1], fb.value)
    ELSE Effects(<<StrKey(proposal)>>, fb.value, mappings, ws, success,
                 suspicious_count + 1, <<>>)

\* Lines 115-121: the proposal was rejected; fb is what fallback_match gave.
AfterFallback(cell_pos, text, proposal, fb) ==
    IF fb.raised
    THEN Effects(<<StrKey(proposal)>>, fallback_key, mappings, ws, success,
                 suspicious_count + 1, fb.value)
    ELSE IF Truthy(fb.value[1]) /\ is_semantic_match(text, fb.value[1].text)
    THEN Accepted(cell_pos, text, fb.value[1], fb.value)
    ELSE Effects(<<StrKey(proposal)>>, fb.value, mappings, ws, success,
                 suspicious_count + 1, <<>>)

TryPlaceholderUncounted(cell_pos, text, ai) ==
    IF ai.raised
    THEN Effects(matched_key, fallback_key, mappings, ws, success,
                 suspicious_count, ai.value)
    ELSE IF is_semantic_match(text, ai.value[1])
    THEN Accepted(cell_pos, text, StrKey(ai.value[1]), fallback_key)
    ELSE Only({AfterFallback(cell_pos, text, ai.value[1], fb) :
               fb \in {fallback_match(text, DictKeys(cost_lookup))}})

\* Lines 111-130: the try block on one placeholder, ai being what
\* match_placeholder_with_ai gave.
TryPlaceholder(cell_pos, text, ai) ==
    IF ai.raised
    THEN Effects(matched_key, fallback_key, mappings, ws, success,
                 suspicious_count + 1, ai.value)
    ELSE IF is_semantic_match(text, ai.value[1])
    THEN Accepted(cell_pos, text, StrKey(ai.value[1]), fallback_key)
    ELSE Only({AfterFallback(cell_pos, text, ai.value[1], fb) :
               fb \in {fallback_match(text, DictKeys(cost_lookup))}})

\* Lines 108-130: one placeholder cell, from its detection to the end of the
\* loop body.
VisitPlaceholder ==
    /\ pc = "loop"
    /\ IsPlaceholderCell(ws[IterOrder(cursor)])
    /\ \E ai \in match_placeholder_with_ai :
         \E done \in {TryPlaceholder(IterOrder(cursor),
                                     Strip(ws[IterOrder(cursor)].text, {" "}), ai)} :
            /\ placeholder' = <<Strip(ws[IterOrder(cursor)].text, {" "})>>
            /\ total' = total + 1
            /\ matched_key' = done.matched_key
            /\ fallback_key' = done.fallback_key
            /\ mappings' = done.mappings
            /\ ws' = done.ws
            /\ success' = done.success
            /\ suspicious_count' = done.suspicious_count
            /\ caught' = done.caught
    /\ Advance
    /\ UNCHANGED <<template, cost_lookup, saved, accuracy, data_correctness,
                   fnVars, groqVars, aggVars>>

SaveAsLoaded ==
    /\ pc = "save"
    /\ saved' = Append(saved, template)
    /\ pc' = "report"
    /\ UNCHANGED <<template, cost_lookup, ws, cursor, mappings, success, total, suspicious_count,
                   accuracy, data_correctness, placeholder, matched_key, fallback_key,
                   caught, fnVars, groqVars, aggVars>>

\* Line 132: wb.save(output_path).
Save ==
    /\ pc = "save"
    /\ saved' = Append(saved, ws)
    /\ pc' = "report"
    /\ UNCHANGED <<template, cost_lookup, ws, cursor, mappings, success, total, suspicious_count,
                   accuracy, data_correctness, placeholder, matched_key, fallback_key,
                   caught, fnVars, groqVars, aggVars>>

\* Lines 139-140: the two percentages, as fractions <<numerator, denominator>>.
Report ==
    /\ pc = "report"
    /\ accuracy' = IF total > 0 THEN <<success * 100, total>> ELSE <<0, 1>>
    /\ data_correctness' = IF success > 0
                           THEN <<(success - suspicious_count) * 100, success>>
                           ELSE <<0, 1>>
    /\ pc' = "done"
    /\ UNCHANGED <<template, cost_lookup, ws, cursor, mappings, success, total, suspicious_count,
                   saved, placeholder, matched_key, fallback_key, caught,
                   fnVars, groqVars, aggVars>>

Next == Aggregate \/ VisitOther \/ VisitPlaceholder \/ Save \/ Report

Spec == Init /\ [][Next]_vars

\* The run is one sequential thread: a step that can be taken is taken.
\* LoopProgress is WF_vars(Aggregate \/ VisitOther \/ VisitPlaceholder) with
\* the enabling condition and the step written out: one of the three is enabled
\* exactly while pc is "aggregate" or "loop" (a cell is a placeholder or it is
\* not, and match_placeholder_with_ai always gives an outcome), and the steps
\* that move the cursor are theirs.
LoopProgress ==
    []<>(pc \notin {"aggregate", "loop"}) \/ []<><<cursor' # cursor>>_vars
FairSpec == Spec /\ WF_vars(Save) /\ WF_vars(Report) /\ LoopProgress

(***************************************************************************)
(* Claims on populate_template_excel                                       *)
(***************************************************************************)
\* A step that processed a placeholder.
Processed == total' = total + 1
\* The cell a placeholder's value goes to: same row, next column.
TargetOf(n) == <<IterOrder(n)[1], IterOrder(n)[2] + 1>>
\* The exceptions the inference call raises.
InferenceErrors == {"ConnectionError", "HTTPError", ExhaustedError}
\* The mapping of the placeholder just processed is the key just matched.
MappingRecorded ==
    /\ matched_key' # <<>>
    /\ DictHas(mappings', placeholder'[1])
    /\ DictGet(mappings', placeholder'[1], None) = matched_key'[1]

\* The three outcomes of a placeholder.
WrittenSuccess ==
    /\ ws'[TargetOf(cursor)].writes = ws[TargetOf(cursor)].writes + 1
    /\ success' = success + 1
    /\ suspicious_count' = suspicious_count
    /\ MappingRecorded
RecordedNoValue ==
    /\ MappingRecorded
    /\ ws' = ws
    /\ success' = success
    /\ suspicious_count' = suspicious_count
Suspicious ==
    /\ suspicious_count' = suspicious_count + 1
    /\ mappings' = mappings
    /\ ws' = ws
    /\ success' = success

\* C1: each processed placeholder ends in exactly one of written-success,
\* recorded-no-value and suspicious, whatever the inference gives and whatever
\* exception the try block meets.
C1_ExactlyOneOutcome ==
    [][Processed =>
          /\ (WrittenSuccess \/ RecordedNoValue \/ Suspicious)
          /\ ~(WrittenSuccess /\ RecordedNoValue)
          /\ ~(WrittenSuccess /\ Suspicious)
          /\ ~(RecordedNoValue /\ Suspicious)]_vars

\* x lies in [0, 100], x a fraction with a positive denominator.
InPercentRange(x) == 0 <= x[1] /\ x[1] <= 100 * x[2]

\* C2: at the end of the run accuracy and dataCorrectness lie in [0, 100], and
\* each is 0 when its denominator (total, success) is 0.
C2_PercentagesInRange ==
    pc = "done" =>
        /\ InPercentRange(accuracy)
        /\ InPercentRange(data_correctness)
        /\ (total = 0 => accuracy[1] = 0)
        /\ (success = 0 => data_correctness[1] = 0)

\* The step processed a placeholder whose proposal failed the gate and for
\* which no fallback key passed it.
NoKeyPassed ==
    /\ Processed
    /\ caught' = <<>> \/ caught'[1] \notin InferenceErrors
    /\ ~is_semantic_match(placeholder'[1], matched_key'[1].text)

\* C3: every target cell is written at most once during the run; and when
\* neither the proposed key nor the fallback key passes the gate, the target
\* cell keeps its template value and suspicious_count grows by exactly one.
C3_WrittenAtMostOnce ==
    /\ [](\A pos \in Cells : ws[pos].writes <= 1)
    /\ [][NoKeyPassed =>
             /\ ws'[TargetOf(cursor)] = ws[TargetOf(cursor)]
             /\ ws[TargetOf(cursor)].writes = 0
             /\ suspicious_count' = suspicious_count + 1]_vars

\* C3 witness: one placeholder's value was written, and the last placeholder
\* was rejected with no fallback key passing the gate.
C3_Witness ==
    /\ pc = "save"
    /\ \E pos \in Cells : ws[pos].writes = 1
    /\ caught = <<>>
    /\ matched_key # <<>>
    /\ fallback_key # <<>>
    /\ ~is_semantic_match(placeholder[1], matched_key[1].text)
    /\ suspicious_count = 1

\* C5: when the inference call fails, the placeholder is counted suspicious,
\* nothing is written or recorded for it, success is unchanged, and the loop
\* goes on: it ends only after the last cell.
C5_InferenceFailure ==
    /\ [][(Processed /\ caught' # <<>> /\ caught'[1] \in InferenceErrors) =>
             /\ suspicious_count' = suspicious_count + 1
             /\ ws' = ws
             /\ mappings' = mappings
             /\ success' = success
             /\ cursor' = cursor + 1
             /\ pc' = IF cursor < LastCell THEN "loop" ELSE "save"]_vars
    /\ [](pc \in {"save", "report", "done"} => cursor = LastCell + 1)

\* C5 witness: the first placeholder's call ran out of retries; it is counted
\* suspicious with nothing written or recorded, and the loop stands at the next
\* placeholder.
C5_Witness ==
    /\ pc = "loop"
    /\ caught = <<ExhaustedError>>
    /\ total = 1
    /\ suspicious_count = 1
    /\ success = 0
    /\ mappings = <<>>
    /\ \A pos \in Cells : ws[pos].writes = 0
    /\ IsPlaceholderCell(ws[IterOrder(cursor)])

\* C10: a key that passed the gate and is no key of the lookup is recorded in
\* the mappings, and nothing is written and no counter but total changes.
C10_MissingValue ==
    [][(/\ Processed
        /\ caught' = <<>>
        /\ is_semantic_match(placeholder'[1], matched_key'[1].text)
        /\ ~DictHas(cost_lookup, matched_key'[1])) =>
          /\ MappingRecorded
          /\ ws' = ws
          /\ success' = success
          /\ suspicious_count' = suspicious_count]_vars

\* C10 witness: a placeholder was mapped to an accepted key that the lookup
\* does not have, and no cell was written and no counter but total moved.
C10_Witness ==
    /\ total = 1
    /\ success = 0
    /\ suspicious_count = 0
    /\ caught = <<>>
    /\ matched_key # <<>>
    /\ is_semantic_match(placeholder[1], matched_key[1].text)
    /\ ~DictHas(cost_lookup, matched_key[1])
    /\ DictGet(mappings, placeholder[1], None) = matched_key[1]
    /\ \A pos \in Cells : ws[pos].writes = 0

\* The cells of the template that hold a placeholder.
TemplatePlaceholders ==
    {pos \in Cells : pos[2] <= NumCols /\ IsPlaceholderCell(template[pos])}

\* C11: every cell of the template whose trimmed text starts with the marker is
\* processed as a placeholder exactly once: a placeholder cell still ahead of
\* the loop stays a placeholder until the loop reaches it, and at the end of
\* the run total is the number of placeholder cells of the template.
C11_EveryPlaceholderCounted ==
    /\ (pc \in {"save", "report", "done"} => total = Cardinality(TemplatePlaceholders))
    /\ (pc = "loop" =>
          \A n \in cursor..LastCell :
              IterOrder(n) \in TemplatePlaceholders => IsPlaceholderCell(ws[IterOrder(n)]))

\* C11 on the layouts where no placeholder stands immediately to the right of
\* another one.
C11_CountedWhenApart ==
    (\A pos \in TemplatePlaceholders : <<pos[1], pos[2] + 1>> \notin TemplatePlaceholders) =>
        C11_EveryPlaceholderCounted

\* The key passes the gate for the label (a key that is no text cannot).
PassesGate(label, key) == ~key.isnum /\ is_semantic_match(label, key.text)

\* C14: fallback_match is called only after the gate rejected the proposed
\* key; its key is accepted only when it is not none and passes the gate; and
\* every pair recorded in the mappings passes the gate.
C14_MappingsPassGate ==
    /\ [](\A n \in 1..Len(mappings) : PassesGate(mappings[n][1], mappings[n][2]))
    /\ [][(Processed /\ fallback_key' # fallback_key) =>
             /\ \E ai \in match_placeholder_with_ai :
                   ~ai.raised /\ ~is_semantic_match(placeholder'[1], ai.value[1])
             /\ IF Truthy(fallback_key'[1]) /\ PassesGate(placeholder'[1], fallback_key'[1])
                THEN matched_key' = fallback_key' /\ MappingRecorded
                ELSE /\ ~PassesGate(placeholder'[1], matched_key'[1])
                     /\ mappings' = mappings
                     /\ suspicious_count' = suspicious_count + 1]_vars
    /\ [][(/\ Processed /\ caught' = <<>>
           /\ PassesGate(placeholder'[1], matched_key'[1])
           /\ <<matched_key'[1]>> # fallback_key') => fallback_key' = fallback_key]_vars

\* C14 witness: the proposal for the first placeholder was rejected, the
\* fallback key passed the gate and is the key recorded for the placeholder.
C14_Witness ==
    /\ total = 1
    /\ fallback_key # <<>>
    /\ Truthy(fallback_key[1])
    /\ matched_key = fallback_key
    /\ caught = <<>>
    /\ DictGet(mappings, placeholder[1], None) = fallback_key[1]
    /\ PassesGate(placeholder[1], fallback_key[1])

\* C15: a step changes no cell but the one immediately right of a placeholder
\* whose key was accepted and has a value in the lookup; the value written is
\* the lookup value of the recorded key rounded to 2 decimal places; and the
\* placeholder cell, like every cell the loop has reached, keeps its content.
C15_OnlyTargetWritten ==
    [][/\ \A pos \in Cells :
            ws'[pos] # ws[pos] =>
                /\ Processed
                /\ pos = TargetOf(cursor)
                /\ caught' = <<>>
                /\ PassesGate(placeholder'[1], matched_key'[1])
                /\ DictHas(cost_lookup, matched_key'[1])
                /\ MappingRecorded
                /\ ws'[pos].kind = "num"
                /\ ws'[pos].num = Round2(DictGet(cost_lookup, matched_key'[1], 0))
       /\ pc = "loop" =>
            \A n \in 1..cursor : ws'[IterOrder(n)] = ws[IterOrder(n)]]_vars

\* C15 witness: the first cell is a placeholder whose key was accepted; the
\* cell to its right holds the lookup value rounded, which differs from the
\* value itself, and no other cell has changed.
C15_Witness ==
    /\ total = 1
    /\ success = 1
    /\ IsPlaceholderCell(ws[<<1, 1>>])
    /\ ws[<<1, 2>>].writes = 1
    /\ ws[<<1, 2>>].num = Round2(DictGet(cost_lookup, matched_key[1], 0))
    /\ ws[<<1, 2>>].num # DictGet(cost_lookup, matched_key[1], 0)
    /\ \A pos \in Cells : pos # <<1, 2>> => ws[pos] = template[pos]

\* C16: whatever the outcomes of the placeholders, the run gets to the end of
\* the loop and to the end of the function; the document is saved exactly once,
\* after the last cell has been processed, as the worksheet then stands; and a
\* cell once written keeps what was written, so the saved document holds the
\* writes of every successful placeholder.
C16_SavedOnceAtEnd ==
    /\ <>(pc = "done")
    /\ [](Len(saved) <= 1)
    /\ [](pc \in {"report", "done"} => (saved = <<ws>> /\ cursor = LastCell + 1))
    /\ [][saved' # saved => (pc = "save" /\ cursor = LastCell + 1 /\ saved' = <<ws>>)]_vars
    /\ [][\A pos \in Cells : ws[pos].writes > 0 => ws'[pos] = ws[pos]]_vars

\* C16 witness: a run in which one placeholder failed and a later one was
\* written has ended, and the saved document holds the written value.
C16_Witness ==
    /\ pc = "done"
    /\ suspicious_count = 1
    /\ success = 1
    /\ Len(saved) = 1
    /\ \E pos \in Cells : saved[1][pos].writes = 1 /\ saved[1][pos] # template[pos]

\* C17: success + suspicious_count never exceeds total; no counter ever
\* decreases; a step on a placeholder raises total by exactly 1, and total
\* changes in no other step; it raises success + suspicious_count by at most
\* 1, and by 0 exactly when the placeholder ends as recorded-no-value, so that
\* at the end total - success - suspicious_count counts those placeholders.
C17_CounterLaws ==
    /\ [](success + suspicious_count <= total)
    /\ [][/\ success' >= success
          /\ suspicious_count' >= suspicious_count
          /\ total' >= total]_vars
    /\ [][(pc = "loop" /\ IsPlaceholderCell(ws[IterOrder(cursor)])) <=> Processed]_vars
    /\ [][total' # total => Processed]_vars
    /\ [][Processed =>
             /\ (success' + suspicious_count') - (success + suspicious_count) \in {0, 1}
             /\ (success' + suspicious_count' = success + suspicious_count) <=> RecordedNoValue]_vars
    /\ [][~Processed => (success' = success /\ suspicious_count' = suspicious_count)]_vars

\* C17 witness: a run of two placeholders has ended, one counted suspicious and
\* one recorded with no value: total - success - suspicious_count = 1.
C17_Witness ==
    /\ pc = "done"
    /\ total = 2
    /\ success = 0
    /\ suspicious_count = 1
    /\ Len(mappings) = 1
    /\ \A pos \in Cells : ws[pos].writes = 0

====
